---- MODULE Spec2Model ----
(***************************************************************************)
(* Model of simpleperf/scripts/app_profiler.py: the NativeLibDownloader    *)
(* (host scan, remote manifest read, sync of the remote native-lib cache). *)
(*                                                                         *)
(* Strings the code takes apart (names, build ids, manifest text) are      *)
(* sequences of one-character strings, so that endswith, strip, split and  *)
(* '%s=%s\n' % ... are computed as Python computes them.                   *)
(***************************************************************************)
EXTENDS Integers, Sequences, FiniteSets, TLC

VARIABLES
    pc,                  \* position of the script in _download_native_libs
    device_arch,         \* AppProfiler.device_arch handed to the downloader
    need_archs,          \* NativeLibDownloader.need_archs
    host_dir,            \* the host directory as os.walk yields it: files in traversal order
    host_build_id_map,   \* NativeLibDownloader.host_build_id_map
    name_count_map,      \* NativeLibDownloader.name_count_map
    device_build_id_map, \* NativeLibDownloader.device_build_id_map
    local_file,          \* the local file 'build_id_list' in the working directory
    remote_libs,         \* library files in NATIVE_LIBS_DIR_ON_DEVICE: name -> content
    remote_manifest,     \* the file build_id_list in NATIVE_LIBS_DIR_ON_DEVICE
    push_todo,           \* build ids the push loop has still to push
    rm_todo,             \* build ids the prune loop has still to remove
    ops,                 \* history: remote operations of the current run, in order
    pushed,              \* history: libraries pushed by the current run
    push_failed,         \* history: build ids whose push failed in the current run
    rm_issued,           \* history: names the current run issued 'rm' for
    rm_failed,           \* history: names whose 'rm' failed in the current run
    mode,                \* history: how the current run was started
    pre_accurate,        \* history: the manifest read by this run described the cache
    profiler             \* the AppProfiler: position in profile(), config, record_subproc

vars == <<pc, device_arch, need_archs, host_dir, host_build_id_map, name_count_map,
          device_build_id_map, local_file, remote_libs, remote_manifest,
          push_todo, rm_todo, ops, pushed, push_failed, rm_issued, rm_failed,
          mode, pre_accurate, profiler>>

-----------------------------------------------------------------------------
(* Bounds *)

\* files in the host directory of the score specification
MaxScoreFiles == 2
\* files in the host directory of the profile specification
MaxProfileFiles == 1

\* files in the host directory of one run of the sync specification
MaxFiles == 2
\* files in the host directory of the scan specification
MaxScanFiles == 2
\* files in the host directory of the rescan specification
MaxNameFiles == 3
\* a downloader is not asked to scan again once a name has been given this often
MaxNameCount == 4
\* the registry of the round trip specification: entries, length of a build id,
\* length of a name
MaxEntries == 2
MaxKeyLen == 1
MaxNameLen == 2
\* the read specification: files of a host directory, calls of
\* collect_native_libs_on_device on one downloader
MaxReadFiles == 1
MaxReads == 2
\* files in the host directory of the debug information specification
MaxRichFiles == 2
\* length of the manifest of the parse specification
MaxTextLen == 6

-----------------------------------------------------------------------------
(* Strings and dictionaries *)

NoFile == "no file"
EmptyMap == [k \in {} |-> k]

Put(m, k, v) == [x \in (DOMAIN m) \cup {k} |-> IF x = k THEN v ELSE m[x]]

Get(m, k, default) == IF k \in DOMAIN m THEN m[k] ELSE default

Digits == <<"0", "1", "2", "3", "4", "5", "6", "7", "8", "9">>

RECURSIVE str(_)
str(n) == IF n < 10 THEN <<Digits[n + 1]>>
          ELSE str(n \div 10) \o <<Digits[(n % 10) + 1]>>

endswith(s, suffix) ==
    /\ Len(s) >= Len(suffix)
    /\ SubSeq(s, Len(s) - Len(suffix) + 1, Len(s)) = suffix

Whitespace == {" ", "\n", "\t", "\r"}

RECURSIVE lstrip(_)
lstrip(s) == IF s # <<>> /\ Head(s) \in Whitespace THEN lstrip(Tail(s)) ELSE s

RECURSIVE rstrip(_)
rstrip(s) == IF s # <<>> /\ s[Len(s)] \in Whitespace
             THEN rstrip(SubSeq(s, 1, Len(s) - 1)) ELSE s

strip(s) == rstrip(lstrip(s))

\* s.split(sep) for a one-character separator: the list of the pieces
RECURSIVE split(_, _)
split(s, sep) ==
    IF \A i \in 1..Len(s) : s[i] # sep THEN <<s>>
    ELSE LET i == CHOOSE j \in 1..Len(s) :
                     s[j] = sep /\ \A k \in 1..(j - 1) : s[k] # sep
         IN  <<SubSeq(s, 1, i - 1)>> \o split(SubSeq(s, i + 1, Len(s)), sep)

\* open(path) reads in text mode: a carriage return, alone or before a newline,
\* is read as a newline
RECURSIVE universal_newlines(_)
universal_newlines(text) ==
    IF text = <<>> THEN <<>>
    ELSE IF Head(text) = "\r"
         THEN <<"\n">> \o universal_newlines(
                  IF Len(text) > 1 /\ text[2] = "\n" THEN SubSeq(text, 3, Len(text))
                  ELSE Tail(text))
    ELSE <<Head(text)>> \o universal_newlines(Tail(text))

\* fh.readlines(): the lines of a text, each with its newline
RECURSIVE readlines(_)
readlines(text) ==
    IF text = <<>> THEN <<>>
    ELSE IF \A i \in 1..Len(text) : text[i] # "\n" THEN <<text>>
    ELSE LET i == CHOOSE j \in 1..Len(text) :
                     text[j] = "\n" /\ \A k \in 1..(j - 1) : text[k] # "\n"
         IN  <<SubSeq(text, 1, i)>> \o readlines(SubSeq(text, i + 1, Len(text)))

-----------------------------------------------------------------------------
(* The host directory and the binary inspector *)

DOT_SO == <<".", "s", "o">>
A_SO == <<"a">> \o DOT_SO
B_SO == <<"b">> \o DOT_SO
A_TXT == <<"a", ".", "t", "x", "t">>

ID1 == <<"1", "f">>
ID2 == <<"2", "e">>
ID3 == <<"3", "d">>
NoBuildId == <<>>

Roots == {"lib", "obj"}

\* a file: its path (root directory and base name) and what readelf reports of it
File(root, name, build_id, arch, sections) ==
    [path |-> <<root, name>>,
     content |-> [build_id |-> build_id, arch |-> arch, sections |-> sections]]

\* the files a run of the sync specification may find on the host
SyncFiles ==
    {File(p[1], p[2], b, "arm64", {}) :
        p \in {<<"lib", A_SO>>, <<"obj", A_SO>>, <<"lib", B_SO>>}, b \in {ID1, ID2}}

\* the files the scan specification may find on the host
ScanFiles ==
    {File(p[1], p[2], b, a, s) :
        p \in {<<"lib", A_SO>>, <<"obj", A_SO>>, <<"lib", B_SO>>, <<"lib", A_TXT>>},
        b \in {NoBuildId, ID1, ID2},
        a \in {"arm", "arm64", "x86", "x86_64"},
        s \in {{}, {".debug_info"}}}

\* the files the rescan specification may find on the host
NameFiles ==
    {File(p[1], p[2], b, "arm64", {}) :
        p \in {<<r, A_SO>> : r \in Roots \cup {"out"}} \cup {<<"lib", B_SO>>},
        b \in {ID1, ID2, ID3}}

\* one library, stripped or with debug information, in two places
RichFiles ==
    {File(r, A_SO, ID1, "arm64", sec) :
        r \in Roots, sec \in {{}, {".symtab"}, {".debug_info"}}}

\* the sections readelf may report for a library
SectionNames == {".debug_info", ".gnu_debugdata", ".symtab", ".text"}

\* one or two libraries with every set of these sections
ScoreFiles ==
    {File(r, A_SO, b, "arm64", sec) :
        r \in Roots, b \in {ID1, ID2}, sec \in SUBSET SectionNames}

DistinctPaths(d) == \A i, j \in 1..Len(d) : i # j => d[i].path # d[j].path

\* directories of at most k files of U, in every traversal order
DirsOver(U, k) ==
    UNION {{d \in [1..n -> U] : DistinctPaths(d)} : n \in 0..k}

ContentAt(d, path) == d[CHOOSE i \in 1..Len(d) : d[i].path = path].content

get_build_id(d, path) == ContentAt(d, path).build_id
get_arch(d, path) == ContentAt(d, path).arch
get_sections(d, path) == ContentAt(d, path).sections

DeviceArchs == {"arm64", "arm", "x86_64", "x86", "mips"}

-----------------------------------------------------------------------------
(* NativeLibDownloader: the host scan *)

\* a faulty variant: only the architecture of the device itself is needed
_get_need_archs_same(arch) ==
    IF arch \in {"arm64", "arm", "x86_64", "x86"} THEN {arch} ELSE {}

_get_need_archs(arch) ==
    IF arch = "arm64" THEN {"arm", "arm64"}
    ELSE IF arch = "arm" THEN {"arm"}
    ELSE IF arch = "x86_64" THEN {"x86", "x86_64"}
    ELSE IF arch = "x86" THEN {"x86"}
    ELSE {}

\* a faulty variant: the symbol table is looked for first
Score_symtabfirst(sections) ==
    IF ".symtab" \in sections THEN 1
    ELSE IF ".gnu_debugdata" \in sections THEN 2
    ELSE IF ".debug_info" \in sections THEN 3
    ELSE 0

Score(sections) ==
    IF ".debug_info" \in sections THEN 3
    ELSE IF ".gnu_debugdata" \in sections THEN 2
    ELSE IF ".symtab" \in sections THEN 1
    ELSE 0

HostElfEntry(path, name, score) == [path |-> path, name |-> name, score |-> score]

\* a faulty variant: the architecture of the file is not looked at
add_native_lib_on_host_anyarch(st, archs, d, path, name) ==
    LET build_id == get_build_id(d, path)
        score == Score(get_sections(d, path))
    IN  IF build_id = NoBuildId THEN st
        ELSE IF build_id \in DOMAIN st.host
        THEN LET entry == st.host[build_id]
             IN  IF entry.score < score
                 THEN [st EXCEPT !.host =
                          Put(st.host, build_id, HostElfEntry(path, entry.name, score))]
                 ELSE st
        ELSE LET repeat_count == Get(st.count, name, 0)
                 unique_name == IF repeat_count = 0 THEN name
                                ELSE name \o <<"_">> \o str(repeat_count)
             IN  [host |-> Put(st.host, build_id, HostElfEntry(path, unique_name, score)),
                  count |-> Put(st.count, name, repeat_count + 1)]

\* a faulty variant: a later file with the same score replaces the entry
add_native_lib_on_host_ties(st, archs, d, path, name) ==
    LET build_id == get_build_id(d, path)
        arch == get_arch(d, path)
        score == Score(get_sections(d, path))
    IN  IF build_id = NoBuildId THEN st
        ELSE IF arch \notin archs THEN st
        ELSE IF build_id \in DOMAIN st.host
        THEN LET entry == st.host[build_id]
             IN  IF entry.score <= score
                 THEN [st EXCEPT !.host =
                          Put(st.host, build_id, HostElfEntry(path, entry.name, score))]
                 ELSE st
        ELSE LET repeat_count == Get(st.count, name, 0)
                 unique_name == IF repeat_count = 0 THEN name
                                ELSE name \o <<"_">> \o str(repeat_count)
             IN  [host |-> Put(st.host, build_id, HostElfEntry(path, unique_name, score)),
                  count |-> Put(st.count, name, repeat_count + 1)]

\* a faulty variant: the base name is used as it is
add_native_lib_on_host_nosuffix(st, archs, d, path, name) ==
    LET build_id == get_build_id(d, path)
        arch == get_arch(d, path)
        score == Score(get_sections(d, path))
    IN  IF build_id = NoBuildId THEN st
        ELSE IF arch \notin archs THEN st
        ELSE IF build_id \in DOMAIN st.host
        THEN LET entry == st.host[build_id]
             IN  IF entry.score < score
                 THEN [st EXCEPT !.host =
                          Put(st.host, build_id, HostElfEntry(path, entry.name, score))]
                 ELSE st
        ELSE LET repeat_count == Get(st.count, name, 0)
                 unique_name == name
             IN  [host |-> Put(st.host, build_id, HostElfEntry(path, unique_name, score)),
                  count |-> Put(st.count, name, repeat_count + 1)]

\* st = [host |-> host_build_id_map, count |-> name_count_map]
add_native_lib_on_host(st, archs, d, path, name) ==
    LET build_id == get_build_id(d, path)
        arch == get_arch(d, path)
        score == Score(get_sections(d, path))
    IN  IF build_id = NoBuildId THEN st
        ELSE IF arch \notin archs THEN st
        ELSE IF build_id \in DOMAIN st.host
        THEN LET entry == st.host[build_id]
             IN  IF entry.score < score
                 THEN [st EXCEPT !.host =
                          Put(st.host, build_id, HostElfEntry(path, entry.name, score))]
                 ELSE st
        ELSE LET repeat_count == Get(st.count, name, 0)
                 unique_name == IF repeat_count = 0 THEN name
                                ELSE name \o <<"_">> \o str(repeat_count)
             IN  [host |-> Put(st.host, build_id, HostElfEntry(path, unique_name, score)),
                  count |-> Put(st.count, name, repeat_count + 1)]

\* the body of the loop of collect_native_libs_on_host for one file
WalkFile(st, archs, d, i) ==
    LET name == d[i].path[2]
    IN  IF ~endswith(name, DOT_SO) THEN st
        ELSE add_native_lib_on_host(st, archs, d, d[i].path, name)

RECURSIVE WalkFrom(_, _, _, _)
WalkFrom(st, archs, d, i) ==
    IF i > Len(d) THEN st
    ELSE WalkFrom(WalkFile(st, archs, d, i), archs, d, i + 1)

\* collect_native_libs_on_host: the map is cleared, the name counts are not
collect_native_libs_on_host(count, archs, d) ==
    WalkFrom([host |-> EmptyMap, count |-> count], archs, d, 1)

-----------------------------------------------------------------------------
(* The adb helper and the manifest format *)

\* AdbHelper.run reports the result and goes on; AdbHelper.check_run exits
\* the script when the command fails
adb_run(ok, next) == next
adb_check_run(ok, next) == IF ok THEN next ELSE "failed"

Op(kind, ok) == <<kind, ok>>

OpKinds == {ops[i][1] : i \in 1..Len(ops)}

\* a faulty variant: the two sides of a line are taken the wrong way round
RECURSIVE ParseLines_swapped(_, _)
ParseLines_swapped(lines, m) ==
    IF lines = <<>> THEN m
    ELSE LET line == strip(Head(lines))
             items == split(line, "=")
         IN  ParseLines_swapped(Tail(lines),
                        IF Len(items) = 2 THEN Put(m, items[2], items[1]) ELSE m)

\* a faulty variant: a line of more than two parts is taken as well
RECURSIVE ParseLines_atleast2(_, _)
ParseLines_atleast2(lines, m) ==
    IF lines = <<>> THEN m
    ELSE LET line == strip(Head(lines))
             items == split(line, "=")
         IN  ParseLines_atleast2(Tail(lines),
                        IF Len(items) >= 2 THEN Put(m, items[1], items[2]) ELSE m)

\* the lines 125-129: the dictionary read from the text of a pulled manifest
RECURSIVE ParseLines(_, _)
ParseLines(lines, m) ==
    IF lines = <<>> THEN m
    ELSE LET line == strip(Head(lines))
             items == split(line, "=")
         IN  ParseLines(Tail(lines),
                        IF Len(items) = 2 THEN Put(m, items[1], items[2]) ELSE m)

ParseManifest(text) == ParseLines(readlines(universal_newlines(text)), EmptyMap)

\* the orders in which a loop over a dictionary may visit its keys
Orderings(S) ==
    {o \in [1..Cardinality(S) -> S] : \A i, j \in 1..Cardinality(S) : i # j => o[i] # o[j]}

\* a faulty variant: the lines are written without their newline
RECURSIVE ManifestText_nonewline(_, _)
ManifestText_nonewline(host, order) ==
    IF order = <<>> THEN <<>>
    ELSE Head(order) \o <<"=">> \o host[Head(order)].name
         \o ManifestText_nonewline(host, Tail(order))

\* the lines 144-145: one '%s=%s\n' per entry, in the order of the loop
RECURSIVE ManifestText(_, _)
ManifestText(host, order) ==
    IF order = <<>> THEN <<>>
    ELSE Head(order) \o <<"=">> \o host[Head(order)].name \o <<"\n">>
         \o ManifestText(host, Tail(order))

Restrict(m, S) == [k \in S |-> m[k]]

-----------------------------------------------------------------------------
(* The sync specification: runs of _download_native_libs against one device *)

\* no AppProfiler: the downloader is looked at on its own
NoProfiler ==
    [pc |-> "none", config |-> [download_libs |-> FALSE], record_subproc |-> "None",
     app_pid |-> "None", downloads |-> 0, simpleperf |-> 0, starts |-> 0]

Init ==
    /\ pc = "idle"
    /\ device_arch \in {"arm64", "x86"}
    /\ need_archs = {}
    /\ host_dir = <<>>
    /\ host_build_id_map = EmptyMap
    /\ name_count_map = EmptyMap
    /\ device_build_id_map = EmptyMap
    /\ local_file = NoFile
    /\ remote_libs = EmptyMap
    /\ remote_manifest = NoFile
    /\ push_todo = {}
    /\ rm_todo = {}
    /\ ops = <<>>
    /\ pushed = {}
    /\ push_failed = {}
    /\ rm_issued = {}
    /\ rm_failed = {}
    /\ mode = "none"
    /\ pre_accurate = TRUE
    /\ profiler = NoProfiler

\* NativeLibDownloader.__init__: a new instance for the run
NewDownloader(d, m) ==
    /\ need_archs' = _get_need_archs(device_arch)
    /\ host_build_id_map' = EmptyMap
    /\ device_build_id_map' = EmptyMap
    /\ name_count_map' = EmptyMap
    /\ host_dir' = d
    /\ mode' = m
    /\ pc' = "host"
    /\ push_todo' = {}
    /\ rm_todo' = {}
    /\ ops' = <<>>
    /\ pushed' = {}
    /\ push_failed' = {}
    /\ rm_issued' = {}
    /\ rm_failed' = {}
    /\ pre_accurate' = TRUE
    /\ UNCHANGED <<device_arch, local_file, remote_libs, remote_manifest>>

\* the script is run, against whatever the host directory holds by then
NewRun ==
    /\ pc \in {"idle", "done"}
    /\ \E d \in DirsOver(SyncFiles, MaxFiles) : NewDownloader(d, "fresh")
    /\ UNCHANGED profiler

\* the script is run again right after a successful run, the host directory unchanged
ReRun ==
    /\ pc = "done"
    /\ NewDownloader(host_dir, "rerun")
    /\ UNCHANGED profiler

\* the script is run again after an interrupted run, the host directory unchanged
Recover ==
    /\ pc = "interrupted"
    /\ NewDownloader(host_dir, "recover")
    /\ UNCHANGED profiler

\* the script is run again after a run that exited, the host directory unchanged
Retry ==
    /\ pc = "failed"
    /\ NewDownloader(host_dir, "retry")
    /\ UNCHANGED profiler

CollectHost ==
    /\ pc = "host"
    /\ LET st == collect_native_libs_on_host(name_count_map, need_archs, host_dir)
       IN  /\ host_build_id_map' = st.host
           /\ name_count_map' = st.count
    /\ pc' = "device"
    /\ UNCHANGED <<profiler, device_arch, need_archs, host_dir, device_build_id_map, local_file,
                   remote_libs, remote_manifest, push_todo, rm_todo, ops, pushed,
                   push_failed, rm_issued, rm_failed, mode, pre_accurate>>

\* a faulty variant: every library of the host is pushed
MissingOnDevice_all(host, device) == DOMAIN host

\* the build ids the push loop pushes (lines 133-134)
MissingOnDevice(host, device) == (DOMAIN host) \ (DOMAIN device)

\* the build ids the prune loop removes (lines 138-139)
MissingOnHost(host, device) == (DOMAIN device) \ (DOMAIN host)

\* the manifest names, for each of its build ids, a file holding that build id
Accurate(manifest, libs) ==
    \A b \in DOMAIN manifest :
        manifest[b] \in DOMAIN libs /\ libs[manifest[b]].build_id = b

\* a faulty variant: a build_id_list left in the working directory is not removed
CollectDeviceWith_leftover(OK) ==
    /\ pc = "device"
    /\ \E mkdir_ok \in OK :
        IF ~mkdir_ok
        THEN /\ device_build_id_map' = EmptyMap
             /\ pc' = adb_check_run(FALSE, "sync")
             /\ ops' = Append(ops, Op("mkdir", FALSE))
             /\ UNCHANGED <<local_file, push_todo, rm_todo, pre_accurate>>
        ELSE LET pull_ok == remote_manifest # NoFile
                 \* line 118, lines 120-121
                 cleared == EmptyMap
                 removed == local_file
                 pulled == IF pull_ok THEN remote_manifest ELSE removed
                 device == IF pulled # NoFile
                           THEN ParseLines(readlines(universal_newlines(pulled)), cleared)
                           ELSE cleared
             IN  /\ local_file' = pulled
                 /\ device_build_id_map' = device
                 /\ pc' = adb_run(pull_ok, adb_check_run(TRUE, "sync"))
                 /\ ops' = ops \o <<Op("mkdir", TRUE), Op("pull", pull_ok)>>
                 /\ push_todo' = MissingOnDevice(host_build_id_map, device)
                 /\ rm_todo' = MissingOnHost(host_build_id_map, device)
                 /\ pre_accurate' = Accurate(device, remote_libs)
    /\ UNCHANGED <<profiler, device_arch, need_archs, host_dir, host_build_id_map, name_count_map,
                   remote_libs, remote_manifest, pushed, push_failed, rm_issued,
                   rm_failed, mode>>

\* a faulty variant: the result of mkdir is not checked
CollectDeviceWith_run(OK) ==
    /\ pc = "device"
    /\ \E mkdir_ok \in OK :
        IF ~mkdir_ok
        THEN /\ device_build_id_map' = EmptyMap
             /\ pc' = adb_run(FALSE, "sync")
             /\ ops' = Append(ops, Op("mkdir", FALSE))
             /\ UNCHANGED <<local_file, push_todo, rm_todo, pre_accurate>>
        ELSE LET pull_ok == remote_manifest # NoFile
                 \* line 118, lines 120-121
                 cleared == EmptyMap
                 removed == NoFile
                 pulled == IF pull_ok THEN remote_manifest ELSE removed
                 device == IF pulled # NoFile
                           THEN ParseLines(readlines(universal_newlines(pulled)), cleared)
                           ELSE cleared
             IN  /\ local_file' = pulled
                 /\ device_build_id_map' = device
                 /\ pc' = adb_run(pull_ok, adb_check_run(TRUE, "sync"))
                 /\ ops' = ops \o <<Op("mkdir", TRUE), Op("pull", pull_ok)>>
                 /\ push_todo' = MissingOnDevice(host_build_id_map, device)
                 /\ rm_todo' = MissingOnHost(host_build_id_map, device)
                 /\ pre_accurate' = Accurate(device, remote_libs)
    /\ UNCHANGED <<profiler, device_arch, need_archs, host_dir, host_build_id_map, name_count_map,
                   remote_libs, remote_manifest, pushed, push_failed, rm_issued,
                   rm_failed, mode>>

\* collect_native_libs_on_device; the pull fails when the device has no manifest.
\* The loops of sync_natives_libs_on_device, called next, start here.
CollectDeviceWith(OK) ==
    /\ pc = "device"
    /\ \E mkdir_ok \in OK :
        IF ~mkdir_ok
        THEN /\ device_build_id_map' = EmptyMap
             /\ pc' = adb_check_run(FALSE, "sync")
             /\ ops' = Append(ops, Op("mkdir", FALSE))
             /\ UNCHANGED <<local_file, push_todo, rm_todo, pre_accurate>>
        ELSE LET pull_ok == remote_manifest # NoFile
                 \* line 118, lines 120-121
                 cleared == EmptyMap
                 removed == NoFile
                 pulled == IF pull_ok THEN remote_manifest ELSE removed
                 device == IF pulled # NoFile
                           THEN ParseLines(readlines(universal_newlines(pulled)), cleared)
                           ELSE cleared
             IN  /\ local_file' = pulled
                 /\ device_build_id_map' = device
                 /\ pc' = adb_run(pull_ok, adb_check_run(TRUE, "sync"))
                 /\ ops' = ops \o <<Op("mkdir", TRUE), Op("pull", pull_ok)>>
                 /\ push_todo' = MissingOnDevice(host_build_id_map, device)
                 /\ rm_todo' = MissingOnHost(host_build_id_map, device)
                 /\ pre_accurate' = Accurate(device, remote_libs)
    /\ UNCHANGED <<profiler, device_arch, need_archs, host_dir, host_build_id_map, name_count_map,
                   remote_libs, remote_manifest, pushed, push_failed, rm_issued,
                   rm_failed, mode>>

\* a faulty variant: the result of the push is not checked
SyncPushWith_run(OK) ==
    /\ pc = "sync"
    /\ \E build_id \in push_todo, ok \in OK :
        LET entry == host_build_id_map[build_id]
        IN  /\ ops' = Append(ops, Op("push", ok))
            /\ pc' = adb_run(ok, "sync")
            /\ IF ok
               THEN /\ remote_libs' = Put(remote_libs, entry.name,
                                          ContentAt(host_dir, entry.path))
                    /\ pushed' = pushed \cup {[build_id |-> build_id, path |-> entry.path,
                                               name |-> entry.name]}
                    /\ UNCHANGED push_failed
               ELSE /\ push_failed' = push_failed \cup {build_id}
                    /\ UNCHANGED <<remote_libs, pushed>>
            /\ push_todo' = push_todo \ {build_id}
    /\ UNCHANGED <<profiler, device_arch, need_archs, host_dir, host_build_id_map, name_count_map,
                   device_build_id_map, local_file, remote_manifest, rm_todo,
                   rm_issued, rm_failed, mode, pre_accurate>>

\* one turn of the push loop: the next build id missing on the device
SyncPushWith(OK) ==
    /\ pc = "sync"
    /\ \E build_id \in push_todo, ok \in OK :
        LET entry == host_build_id_map[build_id]
        IN  /\ ops' = Append(ops, Op("push", ok))
            /\ pc' = adb_check_run(ok, "sync")
            /\ IF ok
               THEN /\ remote_libs' = Put(remote_libs, entry.name,
                                          ContentAt(host_dir, entry.path))
                    /\ pushed' = pushed \cup {[build_id |-> build_id, path |-> entry.path,
                                               name |-> entry.name]}
                    /\ UNCHANGED push_failed
               ELSE /\ push_failed' = push_failed \cup {build_id}
                    /\ UNCHANGED <<remote_libs, pushed>>
            /\ push_todo' = push_todo \ {build_id}
    /\ UNCHANGED <<profiler, device_arch, need_archs, host_dir, host_build_id_map, name_count_map,
                   device_build_id_map, local_file, remote_manifest, rm_todo,
                   rm_issued, rm_failed, mode, pre_accurate>>

\* a faulty variant: a failed rm ends the script
SyncPruneWith_check(OK) ==
    /\ pc = "sync"
    /\ push_todo = {}
    /\ \E build_id \in rm_todo, ok \in OK :
        LET name == device_build_id_map[build_id]
        IN  /\ ok => name \in DOMAIN remote_libs
            /\ ops' = Append(ops, Op("rm", ok))
            /\ pc' = adb_check_run(ok, "sync")
            /\ rm_issued' = rm_issued \cup {name}
            /\ IF ok
               THEN /\ remote_libs' = Restrict(remote_libs, (DOMAIN remote_libs) \ {name})
                    /\ UNCHANGED rm_failed
               ELSE /\ rm_failed' = rm_failed \cup {name}
                    /\ UNCHANGED remote_libs
            /\ rm_todo' = rm_todo \ {build_id}
    /\ UNCHANGED <<profiler, device_arch, need_archs, host_dir, host_build_id_map, name_count_map,
                   device_build_id_map, local_file, remote_manifest, push_todo,
                   pushed, push_failed, mode, pre_accurate>>

\* a faulty variant: the prune loop does not wait for the push loop
SyncPruneWith_early(OK) ==
    /\ pc = "sync"
    /\ \E build_id \in rm_todo, ok \in OK :
        LET name == device_build_id_map[build_id]
        IN  /\ ok => name \in DOMAIN remote_libs
            /\ ops' = Append(ops, Op("rm", ok))
            /\ pc' = adb_run(ok, "sync")
            /\ rm_issued' = rm_issued \cup {name}
            /\ IF ok
               THEN /\ remote_libs' = Restrict(remote_libs, (DOMAIN remote_libs) \ {name})
                    /\ UNCHANGED rm_failed
               ELSE /\ rm_failed' = rm_failed \cup {name}
                    /\ UNCHANGED remote_libs
            /\ rm_todo' = rm_todo \ {build_id}
    /\ UNCHANGED <<profiler, device_arch, need_archs, host_dir, host_build_id_map, name_count_map,
                   device_build_id_map, local_file, remote_manifest, push_todo,
                   pushed, push_failed, mode, pre_accurate>>

\* a faulty variant: the prune loop runs even though a push has failed
SyncPruneWith_afterfail(OK) ==
    /\ \/ pc = "sync" /\ push_todo = {}
       \/ pc = "failed" /\ push_failed # {}
    /\ \E build_id \in rm_todo, ok \in OK :
        LET name == device_build_id_map[build_id]
        IN  /\ ok => name \in DOMAIN remote_libs
            /\ ops' = Append(ops, Op("rm", ok))
            /\ pc' = adb_run(ok, pc)
            /\ rm_issued' = rm_issued \cup {name}
            /\ IF ok
               THEN /\ remote_libs' = Restrict(remote_libs, (DOMAIN remote_libs) \ {name})
                    /\ UNCHANGED rm_failed
               ELSE /\ rm_failed' = rm_failed \cup {name}
                    /\ UNCHANGED remote_libs
            /\ rm_todo' = rm_todo \ {build_id}
    /\ UNCHANGED <<profiler, device_arch, need_archs, host_dir, host_build_id_map, name_count_map,
                   device_build_id_map, local_file, remote_manifest, push_todo,
                   pushed, push_failed, mode, pre_accurate>>

\* one turn of the prune loop: the next build id of the device missing on the host;
\* rm fails on a file that is not there, and may fail on one that is
SyncPruneWith(OK) ==
    /\ pc = "sync"
    /\ push_todo = {}
    /\ \E build_id \in rm_todo, ok \in OK :
        LET name == device_build_id_map[build_id]
        IN  /\ ok => name \in DOMAIN remote_libs
            /\ ops' = Append(ops, Op("rm", ok))
            /\ pc' = adb_run(ok, "sync")
            /\ rm_issued' = rm_issued \cup {name}
            /\ IF ok
               THEN /\ remote_libs' = Restrict(remote_libs, (DOMAIN remote_libs) \ {name})
                    /\ UNCHANGED rm_failed
               ELSE /\ rm_failed' = rm_failed \cup {name}
                    /\ UNCHANGED remote_libs
            /\ rm_todo' = rm_todo \ {build_id}
    /\ UNCHANGED <<profiler, device_arch, need_archs, host_dir, host_build_id_map, name_count_map,
                   device_build_id_map, local_file, remote_manifest, push_todo,
                   pushed, push_failed, mode, pre_accurate>>

\* a faulty variant: the new lines are added to the manifest of the device
SyncManifestWith_patch(OK) ==
    /\ pc = "sync"
    /\ push_todo = {}
    /\ rm_todo = {}
    /\ \E order \in Orderings(DOMAIN host_build_id_map), ok \in OK :
        LET old == IF remote_manifest = NoFile THEN <<>> ELSE remote_manifest
            text == old \o ManifestText(host_build_id_map, order)
        IN  /\ ops' = Append(ops, Op("push_manifest", ok))
            /\ pc' = adb_check_run(ok, "done")
            /\ IF ok
               THEN /\ remote_manifest' = text
                    /\ local_file' = NoFile
               ELSE /\ local_file' = text
                    /\ UNCHANGED remote_manifest
    /\ UNCHANGED <<profiler, device_arch, need_archs, host_dir, host_build_id_map, name_count_map,
                   device_build_id_map, remote_libs, push_todo, rm_todo, pushed,
                   push_failed, rm_issued, rm_failed, mode, pre_accurate>>

\* the new build_id_list is written, pushed, and removed from the host
SyncManifestWith(OK) ==
    /\ pc = "sync"
    /\ push_todo = {}
    /\ rm_todo = {}
    /\ \E order \in Orderings(DOMAIN host_build_id_map), ok \in OK :
        LET text == ManifestText(host_build_id_map, order)
        IN  /\ ops' = Append(ops, Op("push_manifest", ok))
            /\ pc' = adb_check_run(ok, "done")
            /\ IF ok
               THEN /\ remote_manifest' = text
                    /\ local_file' = NoFile
               ELSE /\ local_file' = text
                    /\ UNCHANGED remote_manifest
    /\ UNCHANGED <<profiler, device_arch, need_archs, host_dir, host_build_id_map, name_count_map,
                   device_build_id_map, remote_libs, push_todo, rm_todo, pushed,
                   push_failed, rm_issued, rm_failed, mode, pre_accurate>>

\* the script is killed during the push or the prune loop
Interrupt ==
    /\ pc = "sync"
    /\ pc' = "interrupted"
    /\ UNCHANGED <<profiler, device_arch, need_archs, host_dir, host_build_id_map, name_count_map,
                   device_build_id_map, local_file, remote_libs, remote_manifest,
                   push_todo, rm_todo, ops, pushed, push_failed, rm_issued, rm_failed,
                   mode, pre_accurate>>

\* every command may succeed or fail
CollectDevice == CollectDeviceWith(BOOLEAN)
SyncPush == SyncPushWith(BOOLEAN)
SyncPrune == SyncPruneWith(BOOLEAN)
SyncManifest == SyncManifestWith(BOOLEAN)

Next ==
    \/ NewRun
    \/ ReRun
    \/ Recover
    \/ Retry
    \/ CollectHost
    \/ CollectDevice
    \/ SyncPush
    \/ SyncPrune
    \/ SyncManifest
    \/ Interrupt

Spec == Init /\ [][Next]_vars

\* The runs in which no command fails and no run is interrupted: successful
\* syncs, one after the other, from an empty device directory
CleanCollectDevice == CollectDeviceWith({TRUE})
CleanSyncPush == SyncPushWith({TRUE})
CleanSyncPrune == SyncPruneWith({TRUE})
CleanSyncManifest == SyncManifestWith({TRUE})

CleanNext ==
    \/ NewRun
    \/ ReRun
    \/ CollectHost
    \/ CleanCollectDevice
    \/ CleanSyncPush
    \/ CleanSyncPrune
    \/ CleanSyncManifest

CleanSpec == Init /\ [][CleanNext]_vars

-----------------------------------------------------------------------------
(* The scan specification: collect_native_libs_on_host on one downloader, *)
(* file by file, for every device architecture                            *)

ScanInit ==
    /\ pc = "new"
    /\ device_arch \in DeviceArchs
    /\ need_archs = _get_need_archs(device_arch)
    /\ host_dir = <<>>
    /\ host_build_id_map = EmptyMap
    /\ name_count_map = EmptyMap
    /\ device_build_id_map = EmptyMap
    /\ local_file = NoFile
    /\ remote_libs = EmptyMap
    /\ remote_manifest = NoFile
    /\ push_todo = {}
    /\ rm_todo = {}
    /\ ops = <<>>
    /\ pushed = {}
    /\ push_failed = {}
    /\ rm_issued = {}
    /\ rm_failed = {}
    /\ mode = "scan"
    /\ pre_accurate = TRUE
    /\ profiler = NoProfiler

\* collect_native_libs_on_host is entered: the map is cleared and the walk starts
ScanBegin ==
    /\ pc = "new"
    /\ host_build_id_map' = EmptyMap
    /\ host_dir' = <<>>
    /\ pc' = "walk"
    /\ UNCHANGED <<profiler, device_arch, need_archs, name_count_map, device_build_id_map,
                   local_file, remote_libs, remote_manifest, push_todo, rm_todo, ops,
                   pushed, push_failed, rm_issued, rm_failed, mode, pre_accurate>>

\* os.walk yields the next file and the body of the loop runs on it
ScanFile ==
    /\ pc = "walk"
    /\ Len(host_dir) < MaxScanFiles
    /\ \E f \in ScanFiles :
        /\ \A i \in 1..Len(host_dir) : host_dir[i].path # f.path
        /\ LET d == Append(host_dir, f)
               st == WalkFile([host |-> host_build_id_map, count |-> name_count_map],
                              need_archs, d, Len(d))
           IN  /\ host_dir' = d
               /\ host_build_id_map' = st.host
               /\ name_count_map' = st.count
    /\ UNCHANGED <<profiler, pc, device_arch, need_archs, device_build_id_map,
                   local_file, remote_libs, remote_manifest, push_todo, rm_todo, ops,
                   pushed, push_failed, rm_issued, rm_failed, mode, pre_accurate>>

ScanNext ==
    \/ ScanBegin
    \/ ScanFile

ScanSpec == ScanInit /\ [][ScanNext]_vars

-----------------------------------------------------------------------------
(* The rescan specification: collect_native_libs_on_host called again and *)
(* again on one downloader, over a host directory that does not change    *)

RescanInit ==
    /\ pc = "new"
    /\ device_arch = "arm64"
    /\ need_archs = _get_need_archs(device_arch)
    /\ host_dir \in DirsOver(NameFiles, MaxNameFiles)
    /\ host_build_id_map = EmptyMap
    /\ name_count_map = EmptyMap
    /\ device_build_id_map = EmptyMap
    /\ local_file = NoFile
    /\ remote_libs = EmptyMap
    /\ remote_manifest = NoFile
    /\ push_todo = {}
    /\ rm_todo = {}
    /\ ops = <<>>
    /\ pushed = {}
    /\ push_failed = {}
    /\ rm_issued = {}
    /\ rm_failed = {}
    /\ mode = "scan"
    /\ pre_accurate = TRUE
    /\ profiler = NoProfiler

\* one call of collect_native_libs_on_host
Rescan ==
    /\ pc \in {"new", "scanned"}
    /\ \A n \in DOMAIN name_count_map : name_count_map[n] < MaxNameCount
    /\ LET st == collect_native_libs_on_host(name_count_map, need_archs, host_dir)
       IN  /\ host_build_id_map' = st.host
           /\ name_count_map' = st.count
    /\ pc' = "scanned"
    /\ UNCHANGED <<profiler, device_arch, need_archs, host_dir, device_build_id_map, local_file,
                   remote_libs, remote_manifest, push_todo, rm_todo, ops, pushed,
                   push_failed, rm_issued, rm_failed, mode, pre_accurate>>

RescanNext == Rescan

RescanSpec == RescanInit /\ [][RescanNext]_vars

-----------------------------------------------------------------------------
(* The round trip specification: a registry is written as a manifest (lines *)
(* 143-145) and the text is read back (lines 123-129)                       *)

\* the characters of the build ids and names of the round trip
Chars == {"a", " ", "=", "\r"}

RECURSIVE StringsUpTo(_)
StringsUpTo(n) ==
    IF n = 0 THEN {<<>>}
    ELSE StringsUpTo(n - 1) \cup
         {Append(w, c) : w \in {v \in StringsUpTo(n - 1) : Len(v) = n - 1}, c \in Chars}

RECURSIVE SubsetsUpTo(_, _)
SubsetsUpTo(S, k) ==
    IF k = 0 THEN {{}}
    ELSE LET P == SubsetsUpTo(S, k - 1) IN P \cup {T \cup {x} : T \in P, x \in S}

RoundTripMaps ==
    UNION {[K -> {HostElfEntry(<<"lib", n>>, n, 0) : n \in StringsUpTo(MaxNameLen)}] :
               K \in SubsetsUpTo(StringsUpTo(MaxKeyLen), MaxEntries)}

RoundTripInit ==
    /\ pc = "write"
    /\ device_arch = "arm64"
    /\ need_archs = _get_need_archs(device_arch)
    /\ host_dir = <<>>
    /\ host_build_id_map \in RoundTripMaps
    /\ name_count_map = EmptyMap
    /\ device_build_id_map = EmptyMap
    /\ local_file = NoFile
    /\ remote_libs = EmptyMap
    /\ remote_manifest = NoFile
    /\ push_todo = {}
    /\ rm_todo = {}
    /\ ops = <<>>
    /\ pushed = {}
    /\ push_failed = {}
    /\ rm_issued = {}
    /\ rm_failed = {}
    /\ mode = "roundtrip"
    /\ pre_accurate = TRUE
    /\ profiler = NoProfiler

\* the lines 143-145
WriteManifest ==
    /\ pc = "write"
    /\ \E order \in Orderings(DOMAIN host_build_id_map) :
          local_file' = ManifestText(host_build_id_map, order)
    /\ pc' = "read"
    /\ UNCHANGED <<profiler, device_arch, need_archs, host_dir, host_build_id_map, name_count_map,
                   device_build_id_map, remote_libs, remote_manifest, push_todo, rm_todo,
                   ops, pushed, push_failed, rm_issued, rm_failed, mode, pre_accurate>>

\* the lines 123-129
ReadManifest ==
    /\ pc = "read"
    /\ device_build_id_map' = ParseManifest(local_file)
    /\ pc' = "parsed"
    /\ UNCHANGED <<profiler, device_arch, need_archs, host_dir, host_build_id_map, name_count_map,
                   local_file, remote_libs, remote_manifest, push_todo, rm_todo,
                   ops, pushed, push_failed, rm_issued, rm_failed, mode, pre_accurate>>

RoundTripNext == WriteManifest \/ ReadManifest

RoundTripSpec == RoundTripInit /\ [][RoundTripNext]_vars

-----------------------------------------------------------------------------
(* The parse specification: collect_native_libs_on_device reads a manifest *)
(* of any content                                                          *)

TextChars == {"a", "b", "=", "\n", " "}

RECURSIVE TextsUpTo(_)
TextsUpTo(n) ==
    IF n = 0 THEN {<<>>}
    ELSE TextsUpTo(n - 1) \cup
         {Append(w, c) : w \in {v \in TextsUpTo(n - 1) : Len(v) = n - 1}, c \in TextChars}

ParseInit ==
    /\ pc = "device"
    /\ device_arch = "arm64"
    /\ need_archs = _get_need_archs(device_arch)
    /\ host_dir = <<>>
    /\ host_build_id_map = EmptyMap
    /\ name_count_map = EmptyMap
    /\ device_build_id_map = EmptyMap
    /\ local_file = NoFile
    /\ remote_libs = EmptyMap
    /\ remote_manifest \in TextsUpTo(MaxTextLen)
    /\ push_todo = {}
    /\ rm_todo = {}
    /\ ops = <<>>
    /\ pushed = {}
    /\ push_failed = {}
    /\ rm_issued = {}
    /\ rm_failed = {}
    /\ mode = "parse"
    /\ pre_accurate = TRUE
    /\ profiler = NoProfiler

ParseNext == CleanCollectDevice

ParseSpec == ParseInit /\ [][ParseNext]_vars

-----------------------------------------------------------------------------
(* The read specification: collect_native_libs_on_device over every state   *)
(* earlier runs and earlier calls can have left, and the sync that follows  *)

RegistryOf(d) == collect_native_libs_on_host(EmptyMap, _get_need_archs("arm64"), d).host

\* the manifests a sync of this directory writes
ManifestsOf(d) ==
    {ManifestText(RegistryOf(d), order) : order \in Orderings(DOMAIN RegistryOf(d))}

\* the files a sync of this directory into an empty cache stores
LibsOf(d) ==
    LET reg == RegistryOf(d)
        names == {reg[b].name : b \in DOMAIN reg}
    IN  [n \in names |->
            ContentAt(d, reg[CHOOSE b \in DOMAIN reg : reg[b].name = n].path)]

ReadInit ==
    /\ pc = "device"
    /\ device_arch = "arm64"
    /\ need_archs = _get_need_archs(device_arch)
    /\ host_dir \in DirsOver(SyncFiles, MaxReadFiles)
    /\ host_build_id_map = RegistryOf(host_dir)
    /\ name_count_map = EmptyMap
    /\ device_build_id_map = EmptyMap
    \* an earlier run that exited at line 146 has left its build_id_list
    /\ \/ local_file = NoFile
       \/ local_file \in UNION {ManifestsOf(d) : d \in DirsOver(SyncFiles, MaxReadFiles)}
    \* the cache is new, or an earlier run has filled it
    /\ \/ remote_manifest = NoFile /\ remote_libs = EmptyMap
       \/ \E d \in DirsOver(SyncFiles, MaxReadFiles) :
             remote_manifest \in ManifestsOf(d) /\ remote_libs = LibsOf(d)
    /\ push_todo = {}
    /\ rm_todo = {}
    /\ ops = <<>>
    /\ pushed = {}
    /\ push_failed = {}
    /\ rm_issued = {}
    /\ rm_failed = {}
    /\ mode = "read"
    /\ pre_accurate = TRUE
    /\ profiler = NoProfiler

\* collect_native_libs_on_device is called once more on the same downloader
ReadAgain ==
    /\ pc = "sync"
    /\ OpKinds \cap {"push", "rm", "push_manifest"} = {}
    /\ Cardinality({i \in 1..Len(ops) : ops[i][1] = "pull"}) < MaxReads
    /\ pc' = "device"
    /\ UNCHANGED <<profiler, device_arch, need_archs, host_dir, host_build_id_map, name_count_map,
                   device_build_id_map, local_file, remote_libs, remote_manifest,
                   push_todo, rm_todo, ops, pushed, push_failed, rm_issued, rm_failed,
                   mode, pre_accurate>>

\* the manifest is removed from the device behind the downloader's back
ManifestLost ==
    /\ pc = "device"
    /\ remote_manifest # NoFile
    /\ remote_manifest' = NoFile
    /\ UNCHANGED <<profiler, pc, device_arch, need_archs, host_dir, host_build_id_map,
                   name_count_map, device_build_id_map, local_file, remote_libs,
                   push_todo, rm_todo, ops, pushed, push_failed, rm_issued, rm_failed,
                   mode, pre_accurate>>

ReadNext ==
    \/ CollectDevice
    \/ ReadAgain
    \/ ManifestLost
    \/ SyncPush
    \/ SyncPrune
    \/ SyncManifest

ReadSpec == ReadInit /\ [][ReadNext]_vars

-----------------------------------------------------------------------------
(* The debug information specification: runs in which every command        *)
(* succeeds, over host directories that hold one library in several states *)
(* of stripping                                                            *)

RichInit ==
    /\ pc = "idle"
    /\ device_arch = "arm64"
    /\ need_archs = {}
    /\ host_dir = <<>>
    /\ host_build_id_map = EmptyMap
    /\ name_count_map = EmptyMap
    /\ device_build_id_map = EmptyMap
    /\ local_file = NoFile
    /\ remote_libs = EmptyMap
    /\ remote_manifest = NoFile
    /\ push_todo = {}
    /\ rm_todo = {}
    /\ ops = <<>>
    /\ pushed = {}
    /\ push_failed = {}
    /\ rm_issued = {}
    /\ rm_failed = {}
    /\ mode = "none"
    /\ pre_accurate = TRUE
    /\ profiler = NoProfiler

\* the script is run, against whatever the host directory holds by then
RichRun ==
    /\ pc \in {"idle", "done"}
    /\ \E d \in DirsOver(RichFiles, MaxRichFiles) : NewDownloader(d, "rich")
    /\ UNCHANGED profiler

RichNext ==
    \/ RichRun
    \/ CollectHost
    \/ CleanCollectDevice
    \/ CleanSyncPush
    \/ CleanSyncPrune
    \/ CleanSyncManifest

RichSpec == RichInit /\ [][RichNext]_vars

-----------------------------------------------------------------------------
(* The profile specification: AppProfiler.profile(), with the downloader   *)
(* run from _download_native_libs                                          *)

\* the options of the command line, each set or not set
RawConfigs ==
    [app_package_name : BOOLEAN, native_program : BOOLEAN, cmd : BOOLEAN,
     native_lib_dir : BOOLEAN, download_libs : BOOLEAN, recompile_app : BOOLEAN,
     launch_activity : BOOLEAN, launch_inst_test : BOOLEAN,
     profile_from_launch : BOOLEAN]

\* check_config: does log_exit end the script
check_config_exits(config) ==
    \/ config.app_package_name /\ config.native_program
    \/ config.app_package_name /\ config.cmd
    \/ config.native_program /\ config.cmd
    \/ ~config.app_package_name /\ ~config.native_program /\ ~config.cmd
    \/ config.app_package_name /\ config.launch_activity /\ config.launch_inst_test
    \/ config.download_libs /\ ~config.native_lib_dir
    \/ config.profile_from_launch /\ ~config.app_package_name
    \/ /\ config.profile_from_launch
       /\ ~config.launch_activity
       /\ ~(config.recompile_app /\ ~config.launch_inst_test)

\* check_config: the config as it leaves the check
check_config(config) ==
    IF config.recompile_app /\ ~config.launch_activity /\ ~config.launch_inst_test
    THEN [config EXCEPT !.launch_activity = TRUE]
    ELSE config

\* a faulty variant: the libraries are downloaded after the app was restarted
profile_next_late(step, config) ==
    CASE step = "_get_device_environment" -> "_enable_profiling"
      [] step = "_enable_profiling" -> "_recompile_app"
      [] step = "_recompile_app" -> "_restart_app"
      [] step = "_restart_app" ->
            IF config.download_libs THEN "_download_native_libs"
            ELSE "_get_app_environment"
      [] step = "_download_native_libs" -> "_get_app_environment"
      [] step = "_get_app_environment" ->
            IF ~config.profile_from_launch THEN "_download_simpleperf"
            ELSE "start_and_wait_profiling"
      [] step = "_download_simpleperf" -> "start_and_wait_profiling"
      [] step = "start_and_wait_profiling" -> "collect_profiling_data"
      [] step = "collect_profiling_data" -> "finished"

\* profile() and prepare_profiling(): the call that follows a call that returned
profile_next(step, config) ==
    CASE step = "_get_device_environment" ->
            IF config.download_libs THEN "_download_native_libs"
            ELSE "_enable_profiling"
      [] step = "_download_native_libs" -> "_enable_profiling"
      [] step = "_enable_profiling" -> "_recompile_app"
      [] step = "_recompile_app" -> "_restart_app"
      [] step = "_restart_app" -> "_get_app_environment"
      [] step = "_get_app_environment" ->
            IF ~config.profile_from_launch THEN "_download_simpleperf"
            ELSE "start_and_wait_profiling"
      [] step = "_download_simpleperf" -> "start_and_wait_profiling"
      [] step = "start_and_wait_profiling" -> "collect_profiling_data"
      [] step = "collect_profiling_data" -> "finished"

\* the call returns
Return(p) == [p EXCEPT !.pc = profile_next(p.pc, p.config)]

\* log_exit, or a check_run that failed
Exit(p) == [p EXCEPT !.pc = "exited"]

\* _download_simpleperf: the binary is pushed and made executable
_download_simpleperf(p) == [p EXCEPT !.simpleperf = @ + 1]

\* start_profiling: simpleperf record is started on the device
start_profiling(p) == [p EXCEPT !.record_subproc = "Popen", !.starts = @ + 1]

\* _restart_app, given what the device answers: the app is running, force-stop
\* works, simpleperf can be pushed, the activity or test starts, the app
\* process is found afterwards
_restart_app(p, running, stop_ok, push_ok, launch_ok, found) ==
    LET config == p.config
        no_launch == ~config.launch_activity /\ ~config.launch_inst_test
        launched == [p EXCEPT !.config.launch_activity = @ \/ no_launch]
    IN  IF ~config.app_package_name THEN Return(p)
        ELSE IF no_launch /\ running THEN Return([p EXCEPT !.app_pid = "pid"])
        ELSE IF ~stop_ok THEN Exit(launched)
        ELSE IF config.profile_from_launch /\ ~push_ok THEN Exit(launched)
        ELSE LET started == IF config.profile_from_launch
                            THEN start_profiling(_download_simpleperf(launched))
                            ELSE launched
             IN  IF ~launch_ok \/ ~found THEN Exit(started)
                 ELSE Return([started EXCEPT !.app_pid = "pid"])

\* AppProfiler.__init__ with a config that passes check_config
ProfileInit ==
    /\ pc = "idle"
    /\ device_arch = "None"
    /\ need_archs = {}
    /\ host_dir = <<>>
    /\ host_build_id_map = EmptyMap
    /\ name_count_map = EmptyMap
    /\ device_build_id_map = EmptyMap
    /\ local_file = NoFile
    \* the cache is new, or an earlier run has filled it
    /\ \/ remote_manifest = NoFile /\ remote_libs = EmptyMap
       \/ \E d \in DirsOver(SyncFiles, MaxProfileFiles) :
             remote_manifest \in ManifestsOf(d) /\ remote_libs = LibsOf(d)
    /\ push_todo = {}
    /\ rm_todo = {}
    /\ ops = <<>>
    /\ pushed = {}
    /\ push_failed = {}
    /\ rm_issued = {}
    /\ rm_failed = {}
    /\ mode = "none"
    /\ pre_accurate = TRUE
    /\ \E config \in RawConfigs :
          /\ ~check_config_exits(config)
          /\ profiler = [pc |-> "_get_device_environment", config |-> check_config(config),
                         record_subproc |-> "None", app_pid |-> "None",
                         downloads |-> 0, simpleperf |-> 0, starts |-> 0]

\* the variables of the downloader and of the device cache
downloader_vars ==
    <<pc, need_archs, host_dir, host_build_id_map, name_count_map, device_build_id_map,
      local_file, remote_libs, remote_manifest, push_todo, rm_todo, ops, pushed,
      push_failed, rm_issued, rm_failed, mode, pre_accurate>>

GetDeviceEnvironment ==
    /\ profiler.pc = "_get_device_environment"
    /\ device_arch' \in {"arm64", "x86"}
    /\ profiler' = Return(profiler)
    /\ UNCHANGED downloader_vars

\* _download_native_libs makes the downloader; its three calls are the
\* actions of the downloader
DownloadNativeLibs ==
    /\ profiler.pc = "_download_native_libs"
    /\ \E d \in DirsOver(SyncFiles, MaxProfileFiles) : NewDownloader(d, "profile")
    /\ profiler' = [profiler EXCEPT !.pc = "downloading", !.downloads = @ + 1]

\* sync_natives_libs_on_device has returned
DownloadReturns ==
    /\ profiler.pc = "downloading"
    /\ pc = "done"
    /\ profiler' = Return([profiler EXCEPT !.pc = "_download_native_libs"])
    /\ UNCHANGED <<device_arch, downloader_vars>>

\* a check_run of the downloader has ended the script
DownloadExits ==
    /\ profiler.pc = "downloading"
    /\ pc = "failed"
    /\ profiler' = Exit(profiler)
    /\ UNCHANGED <<device_arch, downloader_vars>>

EnableProfiling ==
    /\ profiler.pc = "_enable_profiling"
    /\ profiler' = Return(profiler)
    /\ UNCHANGED <<device_arch, downloader_vars>>

RecompileApp ==
    /\ profiler.pc = "_recompile_app"
    /\ \E ok \in BOOLEAN :
          profiler' = IF profiler.config.recompile_app /\ ~ok THEN Exit(profiler)
                      ELSE Return(profiler)
    /\ UNCHANGED <<device_arch, downloader_vars>>

RestartApp ==
    /\ profiler.pc = "_restart_app"
    /\ \E running, stop_ok, push_ok, launch_ok, found \in BOOLEAN :
          profiler' = _restart_app(profiler, running, stop_ok, push_ok, launch_ok, found)
    /\ UNCHANGED <<device_arch, downloader_vars>>

GetAppEnvironment ==
    /\ profiler.pc = "_get_app_environment"
    /\ \E found \in BOOLEAN :
          profiler' =
              IF ~profiler.config.cmd /\ profiler.app_pid = "None"
              THEN IF found THEN Return([profiler EXCEPT !.app_pid = "pid"])
                   ELSE Exit(profiler)
              ELSE Return(profiler)
    /\ UNCHANGED <<device_arch, downloader_vars>>

DownloadSimpleperf ==
    /\ profiler.pc = "_download_simpleperf"
    /\ \E ok \in BOOLEAN :
          profiler' = IF ok THEN Return(_download_simpleperf(profiler)) ELSE Exit(profiler)
    /\ UNCHANGED <<device_arch, downloader_vars>>

\* a faulty variant: the recording is started without a look at record_subproc
StartAndWaitProfiling_always ==
    /\ profiler.pc = "start_and_wait_profiling"
    /\ \E ok \in BOOLEAN :
          LET started == start_profiling(profiler)
          IN  profiler' = IF ok THEN Return(started) ELSE Exit(started)
    /\ UNCHANGED <<device_arch, downloader_vars>>

StartAndWaitProfiling ==
    /\ profiler.pc = "start_and_wait_profiling"
    /\ \E ok \in BOOLEAN :
          LET started == IF profiler.record_subproc = "None" THEN start_profiling(profiler)
                         ELSE profiler
          IN  profiler' = IF ok THEN Return(started) ELSE Exit(started)
    /\ UNCHANGED <<device_arch, downloader_vars>>

CollectProfilingData ==
    /\ profiler.pc = "collect_profiling_data"
    /\ profiler' = Return(profiler)
    /\ UNCHANGED <<device_arch, downloader_vars>>

ProfileNext ==
    \/ GetDeviceEnvironment
    \/ DownloadNativeLibs
    \/ CollectHost
    \/ CollectDevice
    \/ SyncPush
    \/ SyncPrune
    \/ SyncManifest
    \/ DownloadReturns
    \/ DownloadExits
    \/ EnableProfiling
    \/ RecompileApp
    \/ RestartApp
    \/ GetAppEnvironment
    \/ DownloadSimpleperf
    \/ StartAndWaitProfiling
    \/ CollectProfilingData

ProfileSpec == ProfileInit /\ [][ProfileNext]_vars

-----------------------------------------------------------------------------
(* The score specification: the scan of an arm64 device over libraries with *)
(* every set of sections                                                    *)

ScoreInit ==
    /\ pc = "walk"
    /\ device_arch = "arm64"
    /\ need_archs = _get_need_archs(device_arch)
    /\ host_dir = <<>>
    /\ host_build_id_map = EmptyMap
    /\ name_count_map = EmptyMap
    /\ device_build_id_map = EmptyMap
    /\ local_file = NoFile
    /\ remote_libs = EmptyMap
    /\ remote_manifest = NoFile
    /\ push_todo = {}
    /\ rm_todo = {}
    /\ ops = <<>>
    /\ pushed = {}
    /\ push_failed = {}
    /\ rm_issued = {}
    /\ rm_failed = {}
    /\ mode = "score"
    /\ pre_accurate = TRUE
    /\ profiler = NoProfiler

\* os.walk yields the next file and the body of the loop runs on it
ScoreFile ==
    /\ pc = "walk"
    /\ Len(host_dir) < MaxScoreFiles
    /\ \E f \in ScoreFiles :
        /\ \A i \in 1..Len(host_dir) : host_dir[i].path # f.path
        /\ LET d == Append(host_dir, f)
               st == WalkFile([host |-> host_build_id_map, count |-> name_count_map],
                              need_archs, d, Len(d))
           IN  /\ host_dir' = d
               /\ host_build_id_map' = st.host
               /\ name_count_map' = st.count
    /\ UNCHANGED <<profiler, pc, device_arch, need_archs, device_build_id_map,
                   local_file, remote_libs, remote_manifest, push_todo, rm_todo, ops,
                   pushed, push_failed, rm_issued, rm_failed, mode, pre_accurate>>

ScoreNext == ScoreFile

ScoreSpec == ScoreInit /\ [][ScoreNext]_vars

-----------------------------------------------------------------------------
(* Properties *)

\* build_id -> name of the host registry
HostMapping == [b \in DOMAIN host_build_id_map |-> host_build_id_map[b].name]

\* the manifest stored on the device, read as collect_native_libs_on_device reads it
RemoteManifestMap ==
    IF remote_manifest = NoFile THEN EmptyMap ELSE ParseManifest(remote_manifest)

\* the device directory holds, under this name, a binary with this build id
Stored(build_id, name) ==
    name \in DOMAIN remote_libs /\ remote_libs[name].build_id = build_id

\* C1 (as claimed): after a successful sync that read an accurate manifest, every
\* build id of the manifest just written has its binary stored on the device
\* under the entry's name.
C1_ManifestEntriesStored ==
    (pc = "done" /\ pre_accurate) =>
        \A b \in DOMAIN RemoteManifestMap : Stored(b, RemoteManifestMap[b])

\* C2: after a successful sync the manifest on the device is exactly the host
\* registry's build_id -> name mapping, whatever the manifest held before.
C2_ManifestMirrorsHost ==
    pc = "done" => RemoteManifestMap = HostMapping

\* a successful sync that dropped an entry of the prior manifest and kept a new one
C2_Witness ==
    /\ pc = "done"
    /\ MissingOnHost(host_build_id_map, device_build_id_map) # {}
    /\ host_build_id_map # EmptyMap
    /\ RemoteManifestMap = HostMapping

\* C3 (as claimed): after each of a sequence of successful syncs from an empty
\* device directory, with every deletion succeeding, the device holds no library
\* whose build id is absent from that sync's host registry.
C3_NoStaleFile ==
    pc = "done" =>
        \A n \in DOMAIN remote_libs : remote_libs[n].build_id \in DOMAIN host_build_id_map

\* C4: in a sync that runs to its end, exactly the build ids of the host registry
\* missing from the manifest are pushed, each from the entry's path under the
\* entry's name, and rm is issued for exactly the manifest names of the build ids
\* missing from the host registry, which removes the file unless the rm fails; at
\* no time is a build id of the manifest pushed or one of the host registry removed.
C4_PushedAndDeleted ==
    /\ \A p \in pushed : p.build_id \notin DOMAIN device_build_id_map
    /\ rm_issued \subseteq {device_build_id_map[b] :
                               b \in MissingOnHost(host_build_id_map, device_build_id_map)}
    /\ pc = "done" =>
        /\ pushed = {[build_id |-> b, path |-> host_build_id_map[b].path,
                      name |-> host_build_id_map[b].name] :
                        b \in (DOMAIN host_build_id_map) \ (DOMAIN device_build_id_map)}
        /\ rm_issued = {device_build_id_map[b] :
                           b \in (DOMAIN device_build_id_map) \ (DOMAIN host_build_id_map)}
        /\ \A n \in rm_issued \ rm_failed : n \notin DOMAIN remote_libs

\* a sync that pushed one library under one name and removed another under another
C4_Witness ==
    /\ pc = "done"
    /\ pushed # {}
    /\ rm_issued # {}
    /\ rm_failed = {}
    /\ \A p \in pushed : p.name \notin rm_issued

\* C5: a run over the same host directory right after a successful sync pushes no
\* library and removes nothing, and leaves the manifest equal to the host mapping.
C5_RerunIdempotent ==
    mode = "rerun" =>
        /\ pushed = {}
        /\ push_failed = {}
        /\ rm_issued = {}
        /\ OpKinds \cap {"push", "rm"} = {}
        /\ pc = "done" => RemoteManifestMap = HostMapping

\* a second run that ran to its end over a registry of two libraries
C5_Witness ==
    /\ mode = "rerun"
    /\ pc = "done"
    /\ Cardinality(DOMAIN host_build_id_map) = 2
    /\ DOMAIN device_build_id_map = DOMAIN host_build_id_map

\* C6 (as claimed): when a push fails, the pushes of the other missing build ids
\* are still attempted before the sync ends in failure.
C6_OtherPushesAttempted ==
    (pc = "failed" /\ push_failed # {}) => push_todo = {}

\* C6 (amended): when a push fails the sync ends in failure at once: the failed
\* push is the last remote operation, the other missing build ids are left
\* unpushed, nothing is removed and the manifest is not rewritten.
C6_PushFailureAborts ==
    push_failed # {} =>
        /\ pc = "failed"
        /\ Cardinality(push_failed) = 1
        /\ ops[Len(ops)] = Op("push", FALSE)
        /\ OpKinds \cap {"rm", "push_manifest"} = {}
        /\ rm_issued = {}
        /\ push_todo \cup push_failed \cup {p.build_id : p \in pushed}
              = MissingOnDevice(host_build_id_map, device_build_id_map)
        /\ push_todo \cap (push_failed \cup {p.build_id : p \in pushed}) = {}

\* a push failed while another missing library was still to be pushed
C6_Witness ==
    /\ push_failed # {}
    /\ push_todo # {}
    /\ pc = "failed"

\* C7: a failed rm does not end the sync: the other removals are still issued,
\* the manifest is rewritten from the host registry and pushed, and the run ends
\* in success unless the push of the manifest itself fails.
C7_PruneFailureTolerated ==
    rm_failed # {} =>
        /\ pc \in {"sync", "done", "failed", "interrupted"}
        /\ pc = "failed" => ops[Len(ops)] = Op("push_manifest", FALSE)
        /\ "push_manifest" \in OpKinds =>
              rm_issued = {device_build_id_map[b] :
                              b \in MissingOnHost(host_build_id_map, device_build_id_map)}
        /\ ops[Len(ops)] = Op("push_manifest", TRUE) =>
              pc = "done" /\ RemoteManifestMap = HostMapping

\* a sync that ended in success although its first rm failed and a second followed
C7_Witness ==
    /\ pc = "done"
    /\ \E i, j \in 1..Len(ops) : i < j /\ ops[i] = Op("rm", FALSE) /\ ops[j][1] = "rm"
    /\ rm_failed # {}

\* C8: within a run every library push comes before any rm, every rm before the
\* push of the manifest, and a successful sync pushes the manifest once, as its
\* last remote operation.
C8_PhasesInOrder ==
    /\ \A i, j \in 1..Len(ops) :
          i < j => /\ ~(ops[i][1] = "rm" /\ ops[j][1] = "push")
                   /\ ops[i][1] # "push_manifest"
    /\ pc = "done" =>
          /\ ops[Len(ops)] = Op("push_manifest", TRUE)
          /\ Cardinality({i \in 1..Len(ops) : ops[i][1] = "push_manifest"}) = 1

\* a successful sync with a push, an rm and the push of the manifest
C8_Witness ==
    /\ pc = "done"
    /\ {"push", "rm", "push_manifest"} \subseteq OpKinds

\* C9 (as claimed): a run over the unchanged host directory after an interrupted
\* one, if it ends in success, leaves the manifest equal to the host mapping and,
\* for every entry, the binary stored under the entry's name.
C9_RecoveredConsistent ==
    (mode = "recover" /\ pc = "done") =>
        /\ RemoteManifestMap = HostMapping
        /\ \A b \in DOMAIN RemoteManifestMap : Stored(b, RemoteManifestMap[b])

\* the file is a library with a build id for an architecture the device needs
Qualifies(f) ==
    /\ endswith(f.path[2], DOT_SO)
    /\ f.content.build_id # NoBuildId
    /\ f.content.arch \in need_archs

\* C10: during and after the scan the host registry has an entry for exactly the
\* build ids of the walked '.so' files that have a build id and a needed
\* architecture, each entry pointing at such a file; other files leave no trace
\* and do not stop the scan.
C10_RegistryKeys ==
    pc = "walk" =>
        /\ DOMAIN host_build_id_map =
              {host_dir[i].content.build_id :
                  i \in {j \in 1..Len(host_dir) : Qualifies(host_dir[j])}}
        /\ \A b \in DOMAIN host_build_id_map :
              \E i \in 1..Len(host_dir) :
                  /\ Qualifies(host_dir[i])
                  /\ host_dir[i].path = host_build_id_map[b].path
                  /\ host_dir[i].content.build_id = b

\* a '.so' file without build id was skipped and the next file was registered
C10_Witness ==
    /\ pc = "walk"
    /\ Len(host_dir) = 2
    /\ endswith(host_dir[1].path[2], DOT_SO)
    /\ host_dir[1].content.build_id = NoBuildId
    /\ Qualifies(host_dir[2])
    /\ DOMAIN host_build_id_map = {host_dir[2].content.build_id}

\* the walked files that qualify and carry this build id, by position
FilesOf(b) ==
    {i \in 1..Len(host_dir) : Qualifies(host_dir[i]) /\ host_dir[i].content.build_id = b}

FileScore(i) == Score(host_dir[i].content.sections)

\* C11: for the files sharing a build id, the entry holds the path and the score
\* of the first walked file among those of highest score, and the name the
\* build id was given when its first file was walked.
C11_BestFileFirstName ==
    pc = "walk" =>
        \A b \in DOMAIN host_build_id_map :
            LET entry == host_build_id_map[b]
                best == CHOOSE i \in FilesOf(b) :
                            /\ \A j \in FilesOf(b) : FileScore(j) <= FileScore(i)
                            /\ \A j \in FilesOf(b) : j < i => FileScore(j) < FileScore(i)
                first == CHOOSE i \in FilesOf(b) : \A j \in FilesOf(b) : i <= j
                before == collect_native_libs_on_host(EmptyMap, need_archs,
                                                      SubSeq(host_dir, 1, first))
            IN  /\ entry.path = host_dir[best].path
                /\ entry.score = FileScore(best)
                /\ entry.name = before.host[b].name

\* a later, richer file of another base name replaced the path but not the name
C11_Witness ==
    /\ pc = "walk"
    /\ Len(host_dir) = 2
    /\ \E b \in DOMAIN host_build_id_map :
          /\ FilesOf(b) = {1, 2}
          /\ FileScore(1) < FileScore(2)
          /\ host_dir[1].path[2] # host_dir[2].path[2]
          /\ host_build_id_map[b].path = host_dir[2].path
          /\ host_build_id_map[b].name = host_dir[1].path[2]

\* where the first file of a build id of the registry was walked
FirstAt(b) == CHOOSE i \in FilesOf(b) : \A j \in FilesOf(b) : i <= j

\* the build ids of the registry first met, under the same base name, before b
EarlierSameName(b) ==
    {c \in (DOMAIN host_build_id_map) \ {b} :
        /\ host_dir[FirstAt(c)].path[2] = host_dir[FirstAt(b)].path[2]
        /\ FirstAt(c) < FirstAt(b)}

\* C12: the names of the registry are pairwise distinct, after the first scan of
\* a downloader and after every later one; in the first scan the build ids met
\* under one base name get that name, then the name with _1, _2, ... in the
\* order in which they were met.
C12_NamesDistinct ==
    /\ \A b, c \in DOMAIN host_build_id_map :
          b # c => host_build_id_map[b].name # host_build_id_map[c].name
    /\ name_count_map = collect_native_libs_on_host(EmptyMap, need_archs, host_dir).count =>
          \A b \in DOMAIN host_build_id_map :
              LET base == host_dir[FirstAt(b)].path[2]
                  k == Cardinality(EarlierSameName(b))
              IN  host_build_id_map[b].name =
                      IF k = 0 THEN base ELSE base \o <<"_">> \o str(k)

\* three build ids met under one base name, named a.so, a.so_1 and a.so_2
C12_Witness ==
    /\ pc = "scanned"
    /\ Len(host_dir) = 3
    /\ {host_build_id_map[b].name : b \in DOMAIN host_build_id_map}
          = {A_SO, A_SO \o <<"_", "1">>, A_SO \o <<"_", "2">>}

\* C13 (as claimed): every scan of an unchanged directory in the same order, a
\* second scan by the same downloader included, yields the registry the first
\* scan of a new downloader yields.
C13_RescanSameRegistry ==
    pc = "scanned" =>
        host_build_id_map = collect_native_libs_on_host(EmptyMap, need_archs, host_dir).host

Has(w, c) == \E i \in 1..Len(w) : w[i] = c

\* no build id and no name of the registry holds '=' or a newline
NoSeparators ==
    \A b \in DOMAIN host_build_id_map :
        \A w \in {b, host_build_id_map[b].name} : ~Has(w, "=") /\ ~Has(w, "\n")

\* no carriage return anywhere, no whitespace where strip() would remove it
NoStrippedChars ==
    \A b \in DOMAIN host_build_id_map :
        LET n == host_build_id_map[b].name
        IN  /\ ~Has(b, "\r") /\ ~Has(n, "\r")
            /\ b # <<>> => Head(b) \notin Whitespace
            /\ n # <<>> => n[Len(n)] \notin Whitespace

\* C14 (as claimed): a registry whose build ids and names hold no '=' and no
\* newline is read back from its manifest as it was written.
C14_RoundTripAsClaimed ==
    (pc = "parsed" /\ NoSeparators) => device_build_id_map = HostMapping

\* C14: a registry whose build ids and names hold no '=', no newline and no
\* carriage return, no build id of which begins with whitespace and no name
\* of which ends with whitespace, is read back from its manifest as it was
\* written.
C14_RoundTrip ==
    (pc = "parsed" /\ NoSeparators /\ NoStrippedChars) => device_build_id_map = HostMapping

\* two entries read back, one of them with a space inside its line
C14_Witness ==
    /\ pc = "parsed"
    /\ NoSeparators
    /\ NoStrippedChars
    /\ Cardinality(DOMAIN host_build_id_map) = 2
    /\ \E b \in DOMAIN host_build_id_map : host_build_id_map[b].name = <<" ", "a">>
    /\ device_build_id_map = HostMapping

\* the lines of the pulled manifest, stripped
StrippedLines ==
    LET lines == readlines(universal_newlines(remote_manifest))
    IN  [i \in 1..Len(lines) |-> strip(lines[i])]

EqualsIn(w) == {i \in 1..Len(w) : w[i] = "="}

FirstEquals(w) == CHOOSE i \in EqualsIn(w) : \A j \in EqualsIn(w) : i <= j

BeforeFirst(w) == SubSeq(w, 1, FirstEquals(w) - 1)

AfterFirst(w) == SubSeq(w, FirstEquals(w) + 1, Len(w))

\* the dictionary that holds, for the lines numbered in good, what stands
\* before the first '=' as key and what stands after it as value, a later line
\* replacing an earlier one of the same key
ReadFrom(good) ==
    /\ DOMAIN device_build_id_map = {BeforeFirst(StrippedLines[i]) : i \in good}
    /\ \A i \in good :
          (\A j \in good : j > i => BeforeFirst(StrippedLines[j]) # BeforeFirst(StrippedLines[i]))
              => device_build_id_map[BeforeFirst(StrippedLines[i])] = AfterFirst(StrippedLines[i])

\* C16 (as claimed): each line is split at its first '=', and every line with
\* an '=' contributes what stands before it as build id and everything after
\* it as name.
C16_SplitAtFirst ==
    (mode = "parse" /\ pc = "sync") =>
        ReadFrom({i \in DOMAIN StrippedLines : EqualsIn(StrippedLines[i]) # {}})

\* C16: the read never aborts; a line holding exactly one '=' contributes what
\* stands before it as build id and what stands after it as name, and every
\* other line, without '=' or with more than one, is ignored, so that the
\* lines of exactly one '=' of a partly corrupted manifest are all read.
C16_ParsedLines ==
    /\ (mode = "parse" /\ pc # "device") => pc = "sync"
    /\ (mode = "parse" /\ pc = "sync") =>
          ReadFrom({i \in DOMAIN StrippedLines : Cardinality(EqualsIn(StrippedLines[i])) = 1})

\* a manifest with a line of one '=' and a line of two
C16_Witness ==
    /\ mode = "parse"
    /\ pc = "sync"
    /\ remote_manifest = <<"a", "=", "b", "\n", "=", "=">>
    /\ device_build_id_map = Put(EmptyMap, <<"a">>, <<"b">>)

Pulls == {i \in 1..Len(ops) : ops[i][1] = "pull"}

LastPull == CHOOSE i \in Pulls : \A j \in Pulls : j <= i

\* C15: when the latest pull of the manifest has failed, the read has not
\* ended the script and the dictionary read is empty, whatever an earlier read
\* of the same downloader or an earlier run has left; if the host registry is
\* empty too, the sync that follows pushes no library, removes nothing and
\* writes an empty manifest.
C15_PullFailureEmpty ==
    (mode = "read" /\ Pulls # {} /\ ops[LastPull] = Op("pull", FALSE)) =>
        /\ device_build_id_map = EmptyMap
        /\ LastPull = Len(ops) => pc # "failed" /\ local_file = NoFile
        /\ host_build_id_map = EmptyMap =>
              /\ pc = "sync" => push_todo = {} /\ rm_todo = {}
              /\ \A i \in (LastPull + 1)..Len(ops) : ops[i][1] \notin {"push", "rm"}
              /\ pc = "done" => remote_manifest = <<>>

\* a first read found entries and left its file; the manifest was then lost, a
\* second read of the same downloader failed to pull it, and the sync of an
\* empty host registry wrote an empty manifest
C15_Witness ==
    /\ mode = "read"
    /\ pc = "done"
    /\ host_build_id_map = EmptyMap
    /\ remote_libs # EmptyMap
    /\ ops = <<Op("mkdir", TRUE), Op("pull", TRUE), Op("mkdir", TRUE), Op("pull", FALSE),
               Op("push_manifest", TRUE)>>
    /\ device_build_id_map = EmptyMap
    /\ remote_manifest = <<>>

\* C17: a failed mkdir is the only command of its run: the script has ended
\* in failure with no pull, no push, no rm and no write of the manifest, and
\* nothing was read; after an mkdir that succeeded, over a new or an existing
\* cache directory, the run goes on to the pull.
C17_MkdirFailureAborts ==
    mode \in {"fresh", "rerun", "recover", "retry"} =>
        /\ \A i \in 1..Len(ops) :
              ops[i] = Op("mkdir", FALSE) =>
                  /\ ops = <<Op("mkdir", FALSE)>>
                  /\ pc = "failed"
                  /\ pushed = {} /\ push_failed = {}
                  /\ rm_issued = {} /\ rm_failed = {}
                  /\ device_build_id_map = EmptyMap
        /\ (ops # <<>> /\ ops[1] = Op("mkdir", TRUE)) =>
              Len(ops) >= 2 /\ ops[2][1] = "pull"

\* mkdir fails in a run that had a library to push and a manifest to pull
C17_Witness ==
    /\ pc = "failed"
    /\ ops = <<Op("mkdir", FALSE)>>
    /\ remote_manifest # NoFile
    /\ MissingOnDevice(host_build_id_map, RemoteManifestMap) # {}

\* C19 (as claimed): after a successful scan and sync, whatever the cache held
\* before, the file the manifest names for a build id of the host registry is
\* stored on the device and is as rich in debug information as the richest
\* host file of that build id.
C19_RemoteHoldsRichest ==
    (mode = "rich" /\ pc = "done") =>
        \A b \in DOMAIN host_build_id_map :
            /\ b \in DOMAIN RemoteManifestMap
            /\ Stored(b, RemoteManifestMap[b])
            /\ \A i \in FilesOf(b) :
                  FileScore(i) <= Score(remote_libs[RemoteManifestMap[b]].sections)

\* C20: the needed architectures are {arm, arm64} on an arm64 device, {arm} on
\* arm, {x86, x86_64} on x86_64, {x86} on x86 and none on any other device;
\* every entry of the host registry points at a file of a needed architecture,
\* so on a device of another architecture the registry stays empty whatever
\* is walked.
C20_NeedArchs ==
    /\ mode = "scan" =>
          need_archs =
              CASE device_arch = "arm64" -> {"arm", "arm64"}
                [] device_arch = "arm" -> {"arm"}
                [] device_arch = "x86_64" -> {"x86", "x86_64"}
                [] device_arch = "x86" -> {"x86"}
                [] OTHER -> {}
    /\ (mode = "scan" /\ pc = "walk") =>
          /\ \A b \in DOMAIN host_build_id_map :
                \E i \in 1..Len(host_dir) :
                    /\ host_dir[i].path = host_build_id_map[b].path
                    /\ host_dir[i].content.arch \in
                          (IF device_arch \in {"arm64", "arm"} THEN {"arm"} ELSE {})
                          \cup (IF device_arch = "arm64" THEN {"arm64"} ELSE {})
                          \cup (IF device_arch \in {"x86_64", "x86"} THEN {"x86"} ELSE {})
                          \cup (IF device_arch = "x86_64" THEN {"x86_64"} ELSE {})
          /\ device_arch \notin {"arm64", "arm", "x86_64", "x86"} =>
                host_build_id_map = EmptyMap

\* on a device of an unknown architecture two libraries with build ids were
\* walked and the registry is empty
C20_Witness ==
    /\ mode = "scan"
    /\ pc = "walk"
    /\ device_arch \notin {"arm64", "arm", "x86_64", "x86"}
    /\ Len(host_dir) = 2
    /\ \A i \in 1..2 :
          /\ endswith(host_dir[i].path[2], DOT_SO)
          /\ host_dir[i].content.build_id # NoBuildId
    /\ host_build_id_map = EmptyMap

OpsOf(kind) == {i \in 1..Len(ops) : ops[i][1] = kind}

\* C18: in a run of profile() with the download of libraries asked for, the
\* downloader is made once; once the recording has been started, in
\* _restart_app when profiling from launch and in start_and_wait_profiling
\* otherwise, the one scan, read and sync have returned, with one pull and one
\* write of the manifest, and the downloader does nothing more.
C18_SyncOnceBeforeProfiling ==
    (profiler.pc # "none" /\ profiler.config.download_libs) =>
        /\ profiler.downloads <= 1
        /\ profiler.starts >= 1 =>
              /\ profiler.downloads = 1
              /\ pc = "done"
              /\ Cardinality(OpsOf("mkdir")) = 1
              /\ Cardinality(OpsOf("pull")) = 1
              /\ Cardinality(OpsOf("push_manifest")) = 1
              /\ ops[Len(ops)] = Op("push_manifest", TRUE)

\* a run that profiled from launch has finished after a sync that pushed a library
C18_Witness ==
    /\ profiler.pc = "finished"
    /\ profiler.config.download_libs
    /\ profiler.config.profile_from_launch
    /\ profiler.record_subproc = "Popen"
    /\ pushed # {}
    /\ pc = "done"

\* the ranks of the sections that are present, 0 being the rank of none
RanksOf(sections) ==
    {0} \cup (IF ".debug_info" \in sections THEN {3} ELSE {})
        \cup (IF ".gnu_debugdata" \in sections THEN {2} ELSE {})
        \cup (IF ".symtab" \in sections THEN {1} ELSE {})

\* C21: the score of an entry of the registry is that of the file it points
\* at: 3 with .debug_info, else 2 with .gnu_debugdata, else 1 with .symtab,
\* else 0; it lies in 0..3 and is the highest rank among the sections present.
C21_ScoreTable ==
    mode = "score" =>
        \A b \in DOMAIN host_build_id_map :
            \E i \in 1..Len(host_dir) :
                LET sections == host_dir[i].content.sections
                    score == host_build_id_map[b].score
                IN  /\ host_dir[i].path = host_build_id_map[b].path
                    /\ score \in 0..3
                    /\ score \in RanksOf(sections)
                    /\ \A r \in RanksOf(sections) : r <= score
                    /\ score = CASE ".debug_info" \in sections -> 3
                                 [] ".debug_info" \notin sections
                                    /\ ".gnu_debugdata" \in sections -> 2
                                 [] {".debug_info", ".gnu_debugdata"} \cap sections = {}
                                    /\ ".symtab" \in sections -> 1
                                 [] {".debug_info", ".gnu_debugdata", ".symtab"}
                                        \cap sections = {} -> 0

\* a library with all three kinds of section has the score 3, one with the
\* symbol table and the compressed debug data has the score 2
C21_Witness ==
    /\ mode = "score"
    /\ Len(host_dir) = 2
    /\ host_dir[1].content.sections = {".debug_info", ".gnu_debugdata", ".symtab", ".text"}
    /\ host_dir[2].content.sections = {".gnu_debugdata", ".symtab"}
    /\ host_dir[1].content.build_id # host_dir[2].content.build_id
    /\ host_build_id_map[host_dir[1].content.build_id].score = 3
    /\ host_build_id_map[host_dir[2].content.build_id].score = 2

\* C22: when a push of a library has failed, the script has ended with the
\* manifest of the device still the text that was pulled at the start of the
\* run, or still absent, with no rm and no write of the manifest issued and
\* the files the manifest named still stored; an rm or a write of the manifest
\* is issued only after every missing library has been pushed.
C22_FailedPushLeavesCache ==
    /\ (pc = "failed" /\ push_failed # {}) =>
          /\ IF remote_manifest = NoFile THEN local_file = NoFile
             ELSE local_file # NoFile /\ local_file = remote_manifest
          /\ \A i \in 1..Len(ops) : ops[i][1] \in {"mkdir", "pull", "push"}
          /\ rm_issued = {}
          /\ pre_accurate =>
                \A b \in DOMAIN device_build_id_map :
                    device_build_id_map[b] \in DOMAIN remote_libs
    /\ OpKinds \cap {"rm", "push_manifest"} # {} =>
          /\ push_failed = {}
          /\ {p.build_id : p \in pushed}
                = MissingOnDevice(host_build_id_map, device_build_id_map)

\* a push failed in a run that had a manifest to rewrite and a library to remove
C22_Witness ==
    /\ pc = "failed"
    /\ push_failed # {}
    /\ remote_manifest # NoFile
    /\ rm_todo # {}
    /\ remote_libs # EmptyMap

BeforeStartAndWait ==
    {"_get_device_environment", "_download_native_libs", "downloading", "_enable_profiling",
     "_recompile_app", "_restart_app", "_get_app_environment", "_download_simpleperf",
     "start_and_wait_profiling"}

\* C23: in a run of profile() with a config that passed check_config, the
\* recording is started at most once and simpleperf is pushed at most once,
\* the push before the start; when profiling from launch the recording is
\* running when _restart_app has returned, otherwise it is not started before
\* start_and_wait_profiling; once wait_profiling has returned there has been
\* exactly one start and exactly one push.
C23_RecordingStartedOnce ==
    profiler.pc # "none" =>
        /\ profiler.starts <= 1
        /\ profiler.simpleperf <= 1
        /\ profiler.starts = 1 => profiler.simpleperf = 1
        /\ profiler.starts = 0 => profiler.record_subproc = "None"
        /\ (profiler.config.profile_from_launch
               /\ profiler.pc \in {"_get_app_environment", "start_and_wait_profiling"}) =>
              profiler.starts = 1
        /\ (~profiler.config.profile_from_launch /\ profiler.pc \in BeforeStartAndWait) =>
              profiler.starts = 0
        /\ profiler.pc \in {"collect_profiling_data", "finished"} =>
              profiler.starts = 1 /\ profiler.simpleperf = 1

\* a run that profiled from launch and one push of simpleperf, without a
\* download of libraries, has finished
C23_Witness ==
    /\ profiler.pc = "finished"
    /\ profiler.config.profile_from_launch
    /\ ~profiler.config.download_libs
    /\ profiler.starts = 1
    /\ profiler.simpleperf = 1

====
